---- MODULE Spec2Model ----
(***************************************************************************)
(* The server side of the Replicant engine: one server replicant           *)
(* (namespace "ns", name "r"), the Replicator that owns it, the            *)
(* process.nextTick queue of the Node process, the persistence store and   *)
(* the sockets with their rooms.                                           *)
(*                                                                         *)
(* A macrotask (a socket handler, a task of extension code, a timer) runs  *)
(* only when the nextTick queue is empty; the callbacks it arms run, in    *)
(* order, before the next macrotask.                                       *)
(***************************************************************************)
EXTENDS Integers, Sequences, FiniteSets, TLC

\* ------------------------------------------------------------------ bounds
MaxRev == 2        \* macrotasks start only while revision < MaxRev
MaxOps == 1        \* longest operations array of one proposal
MaxMuts == 2       \* most synchronous calls of one extension task
MaxNum == 1        \* primitive numbers and property values are 1..MaxNum
MaxBatch == 2      \* longest operations array of SpecBatch
MaxWait == 2       \* longest list of replicants waitForReplicants is given
MaxHandlers == 2   \* most listenFor handlers of one extension for the message

\* ------------------------------------------------------------------ values
Keys == {"a"}
Nums == 1..MaxNum
NoFields == [k \in Keys |-> 0]

\* A JSON value: undefined, a number, or a flat object (f[k] = 0: no key k).
Undef == [kind |-> "undef", n |-> 0, f |-> NoFields]
Num(i) == [kind |-> "num", n |-> i, f |-> NoFields]
Obj(f) == [kind |-> "obj", n |-> 0, f |-> f]
Objects == {Obj(f) : f \in [Keys -> 0..MaxNum]}
Values == {Undef} \cup {Num(i) : i \in Nums} \cup Objects

\* clone(): a deep copy is a value equal to its argument.
clone(v) == v

\* ------------------------------------------------------------------ operations
\* An operation { path, method, args }; the model's values are flat, so every
\* path is the root "/".  prop is "" and newValue is Undef where args has none.
Op(method, prop, newValue) ==
    [path |-> "/", method |-> method, prop |-> prop, newValue |-> newValue]
Overwrite(v) == Op("overwrite", "", v)
Operations ==
    {Overwrite(v) : v \in Values}
        \cup {Op(m, k, Num(i)) : m \in {"add", "update"}, k \in Keys, i \in Nums}
        \cup {Op("delete", k, Undef) : k \in Keys}

\* shared.applyOperation on the value: the proxy is suspended, so nothing is
\* recorded; a property operation needs an object to act on.
ApplyOperation(v, op) ==
    CASE op.method = "overwrite" -> op.newValue
      [] op.method \in {"add", "update"} /\ v.kind = "obj" ->
            Obj([v.f EXCEPT ![op.prop] = op.newValue.n])
      [] op.method = "delete" /\ v.kind = "obj" ->
            Obj([v.f EXCEPT ![op.prop] = 0])
      [] OTHER -> v

RECURSIVE ApplyAll(_, _)
ApplyAll(v, ops) ==
    IF ops = <<>> THEN v ELSE ApplyAll(ApplyOperation(v, Head(ops)), Tail(ops))

\* The methods shared.applyOperation knows; on any other it throws.
Methods == {"overwrite", "add", "update", "delete"}
UnknownOperation == Op("unknown", "", Undef)
Throws(ops) == \E i \in 1..Len(ops) : ops[i].method \notin Methods
\* The value forEach leaves behind: every operation before the first that
\* throws has been applied.
RECURSIVE ApplyUntilThrow(_, _)
ApplyUntilThrow(v, ops) ==
    IF ops = <<>> \/ Head(ops).method \notin Methods THEN v
    ELSE ApplyUntilThrow(ApplyOperation(v, Head(ops)), Tail(ops))

\* ------------------------------------------------------------------ schemas
\* opts.schemaPath: "" (none given), or the path of a schema file.
NoSchema == "none"
SchemaPaths == {"", "schemas/object.json"}
\* $RefParser.readSync + replaceRefs: the resolved schema at a path.
ReadSchema(schemaPath) ==
    CASE schemaPath = "schemas/number.json" -> "number"
      [] schemaPath = "schemas/object.json" -> "object"
      [] OTHER -> NoSchema
\* The schema files of the server, and the schemas they resolve to.
SchemaFiles == {"schemas/number.json", "schemas/object.json"}
Schemas == {ReadSchema(schemaPath) : schemaPath \in SchemaFiles}
\* sha1(this.schema): the schema object itself is handed to sha1, which hashes
\* a non-string, non-array message by its toString().
ObjectToString(schema) == "[object Object]"
Sha1(message) == <<"sha1", message>>
NoSum == <<"sha1", "">>
SchemaSum(schema) == IF schema = NoSchema THEN NoSum ELSE Sha1(ObjectToString(schema))
\* json-schema-defaults: { type: number, default: 1 } and { type: object }.
schemaDefaults(schema) ==
    CASE schema = "number" -> Num(1)
      [] schema = "object" -> Obj(NoFields)
      [] OTHER -> Undef
\* The validator generateValidator() compiles; the stub accepts everything.
Validates(schema, v) ==
    CASE schema = "number" -> v.kind = "num"
      [] schema = "object" -> v.kind = "obj"
      [] OTHER -> TRUE

\* ------------------------------------------------------------------ store
\* The JSON value null.
Null == [kind |-> "null", n |-> 0, f |-> NoFields]
\* An item of the namespace's LocalStorage: null (no item), '' or JSON text.
NullItem == [kind |-> "null", of |-> Undef]
EmptyString == [kind |-> "empty", of |-> Undef]
JsonText(v) == [kind |-> "json", of |-> v]
\* JSON.stringify(value), with '' standing in for undefined.
Stringify(v) == IF v.kind = "undef" THEN EmptyString ELSE JsonText(v)
\* existingValue === '' ? undefined : JSON.parse(existingValue)
\* (JSON.parse turns the null of a missing item into the text 'null')
ParseItem(item) ==
    CASE item.kind = "json" -> item.of
      [] item.kind = "empty" -> Undef
      [] OTHER -> Null
\* The JSON values 0, false and '' are falsy and not null: 0 stands for them.
Zero == Num(0)
JsonValues == Values \cup {Null, Zero}
\* What the store may hold of an earlier run of the process.
PersistedItems == {NullItem} \cup {Stringify(v) : v \in JsonValues}
\* typeof existingValue !== 'undefined' && existingValue !== null
HasExistingValue(existingValue) == existingValue.kind \notin {"undef", "null"}

\* ------------------------------------------------------------------ state
Sockets == {"s1", "s2"}
ReplicantRoom == "replicant:ns"      \* `replicant:${namespace}`
NotAString == "<not a string>"       \* a joinRoom argument that is no string

VARIABLES
    \* Replicator
    declaredReplicants,     \* the Map of replicator.declare has an entry for ns/r
    constructed,            \* the constructor's own registry has one (replicant.ts:117)
    pendingSave,            \* _pendingSave holds the replicant
    store,                  \* the store item "r.rep"
    \* Replicant
    value, revision, schema, persistent,
    throttle,               \* _requestSaveReplicant: "unset" or the throttle's state
    operationQueue, pendingOperationFlush, oldValue,
    ignoreProxy,            \* _ignoreProxy: the proxy's traps record nothing
    listener,               \* extension code has a 'change' listener that edits the value
    \* Node process and transport
    tickQueue,              \* callbacks armed with process.nextTick
    rooms,                  \* socket.rooms of every connected socket
    crashed,                \* an exception reached the process (exitOnUncaught)
    \* what the current macrotask has done so far
    phase, task, emits, changes, acks, recorded, baseValue,
    writes,                 \* what each setItem call of the task did
    subscribers,            \* the sockets whose replicant:declare was answered with a value
    windowWrites,           \* items written since the throttle's wait began (at most 2 counted)
    \* listeners of extension code
    calls,                  \* the listener calls of the current macrotask
    onceListeners,          \* the one-time 'change' listeners the emitter holds
    promise,                \* the promise of waitForReplicants and its counters
    \* messages
    messageHandlers,        \* _messageHandlers of the API instance of every extension
    ackCalls,               \* the calls of the socket's acknowledgement in the current macrotask
    \* a browser
    client                  \* the client replicant of ns/r in one browser

repVars == <<value, revision, schema, persistent, throttle, operationQueue,
             pendingOperationFlush, oldValue, ignoreProxy, listener, windowWrites>>
replicatorVars == <<declaredReplicants, constructed, pendingSave, store>>
taskVars == <<phase, task, emits, changes, acks, recorded, baseValue, writes,
             subscribers, calls>>
listenVars == <<onceListeners, promise>>
messageVars == <<messageHandlers, ackCalls>>
vars == <<replicatorVars, repVars, tickQueue, rooms, crashed, taskVars, listenVars,
          messageVars, client>>

\* The part of the state the operators below thread through a handler.
Cur ==
    [declaredReplicants |-> declaredReplicants, constructed |-> constructed,
     pendingSave |-> pendingSave, store |-> store,
     value |-> value, revision |-> revision, schema |-> schema,
     persistent |-> persistent, throttle |-> throttle,
     operationQueue |-> operationQueue,
     pendingOperationFlush |-> pendingOperationFlush, oldValue |-> oldValue,
     ignoreProxy |-> ignoreProxy,
     listener |-> listener, tickQueue |-> tickQueue, crashed |-> crashed,
     emits |-> emits, changes |-> changes, acks |-> acks,
     recorded |-> recorded, baseValue |-> baseValue, writes |-> writes,
     windowWrites |-> windowWrites, calls |-> calls,
     onceListeners |-> onceListeners, promise |-> promise,
     messageHandlers |-> messageHandlers, ackCalls |-> ackCalls,
     client |-> client, threw |-> FALSE]

Commit(c) ==
    /\ declaredReplicants' = c.declaredReplicants
    /\ constructed' = c.constructed
    /\ pendingSave' = c.pendingSave
    /\ store' = c.store
    /\ value' = c.value
    /\ revision' = c.revision
    /\ schema' = c.schema
    /\ persistent' = c.persistent
    /\ throttle' = c.throttle
    /\ operationQueue' = c.operationQueue
    /\ pendingOperationFlush' = c.pendingOperationFlush
    /\ oldValue' = c.oldValue
    /\ ignoreProxy' = c.ignoreProxy
    /\ listener' = c.listener
    /\ tickQueue' = c.tickQueue
    /\ crashed' = c.crashed
    /\ emits' = c.emits
    /\ changes' = c.changes
    /\ acks' = c.acks
    /\ recorded' = c.recorded
    /\ baseValue' = c.baseValue
    /\ writes' = c.writes
    /\ windowWrites' = c.windowWrites
    /\ calls' = c.calls
    /\ onceListeners' = c.onceListeners
    /\ promise' = c.promise
    /\ messageHandlers' = c.messageHandlers
    /\ ackCalls' = c.ackCalls
    /\ client' = c.client

\* A fresh macrotask has done nothing yet.
Fresh(c) ==
    [c EXCEPT !.emits = <<>>, !.changes = <<>>, !.acks = <<>>, !.recorded = <<>>,
              !.writes = <<>>, !.calls = <<>>, !.ackCalls = <<>>]

\* ------------------------------------------------------------------ Replicator
\* The sockets io.to(`replicant:${namespace}`) reaches.
RoomMembers(room) == {s \in Sockets : room \in rooms[s]}

\* Replicator.saveAllReplicants reads an identifier, declaredReplicants, that
\* its module does not declare: it resolves to the registry the constructor
\* fills ("registry") or the call throws ("ReferenceError").
Resolutions == {"registry", "ReferenceError"}

\* Replicator.emitToClients of 'replicant:operations'.  base and value are
\* the replicant's value when its revision became revision - 1 and revision.
emitToClients(c, operations, base) ==
    [c EXCEPT !.emits = Append(@, [revision |-> c.revision,
                                   operations |-> operations,
                                   to |-> RoomMembers(ReplicantRoom),
                                   base |-> base,
                                   value |-> c.baseValue])]

\* A saveReplicant that arms a write at every call.
saveReplicantEveryCall(c) ==
    IF ~c.persistent THEN c
    ELSE [c EXCEPT !.pendingSave = TRUE, !.tickQueue = Append(@, "save")]

\* Replicator.saveReplicant: no second write is armed while one is pending.
saveReplicant(c) ==
    IF ~c.persistent \/ c.pendingSave THEN c
    ELSE [c EXCEPT !.pendingSave = TRUE, !.tickQueue = Append(@, "save")]

\* Replicator.saveAllReplicants
saveAllReplicants(c, resolution) ==
    IF resolution = "ReferenceError" THEN [c EXCEPT !.threw = TRUE]
    ELSE IF c.constructed THEN saveReplicant(c) ELSE c

\* replicant._requestSaveReplicant(): lodash.throttle around saveReplicant,
\* leading and trailing edge.  "idle": the next call goes through at once;
\* "timer": the wait is running; "pending": it is running and a call came in;
\* "cool": the trailing call ran less than one wait ago.  A replicant whose
\* constructor threw has no such function ("unset"): calling it throws.
requestSaveReplicant(c) ==
    CASE c.throttle = "unset" -> [c EXCEPT !.crashed = TRUE]
      [] c.throttle = "idle" ->
            saveReplicant([c EXCEPT !.throttle = "timer", !.windowWrites = 0])
      [] OTHER -> [c EXCEPT !.throttle = "pending"]

\* ------------------------------------------------------------------ Replicant
\* Replicant._addOperation
addOperation(c, operation) ==
    LET q == [c EXCEPT !.operationQueue = Append(@, operation),
                       !.recorded = Append(@, operation)]
    IN  IF q.pendingOperationFlush THEN q
        ELSE [q EXCEPT !.oldValue = clone(q.value),
                       !.pendingOperationFlush = TRUE,
                       !.tickQueue = Append(@, "flush")]

\* A comparison of the values, whatever objects hold them.
DeepEqual(newValue, current, sameReference) == newValue = current

\* newValue === this.__value: primitives by value; an object only when the
\* caller hands back the very object the replicant holds (sameReference).
Identical(newValue, current, sameReference) ==
    \/ sameReference
    \/ newValue.kind # "obj" /\ newValue = current

\* A setter that installs the value before it validates it.
setValueThenValidate(c, newValue, sameReference, wrapped) ==
    IF Identical(newValue, c.value, sameReference) THEN c
    ELSE IF ~Validates(c.schema, newValue)
         THEN [c EXCEPT !.value = newValue, !.threw = TRUE]
         ELSE addOperation([c EXCEPT !.value = newValue], Overwrite(clone(newValue)))

\* The value setter.  threw: validate() rejected newValue, or proxyRecursive
\* threw (~wrapped) between _ignoreProxy = true and _ignoreProxy = false.
setValue(c, newValue, sameReference, wrapped) ==
    IF Identical(newValue, c.value, sameReference) THEN c
    ELSE IF ~Validates(c.schema, newValue) THEN [c EXCEPT !.threw = TRUE]
    ELSE IF ~wrapped THEN [c EXCEPT !.ignoreProxy = TRUE, !.threw = TRUE]
    ELSE addOperation([c EXCEPT !.value = newValue, !.ignoreProxy = FALSE],
                      Overwrite(clone(newValue)))

\* The proxy's set trap on the root object: value[prop] = n.
proxySet(c, prop, n) ==
    LET newValue == Obj([c.value.f EXCEPT ![prop] = n])
        method == IF c.value.f[prop] = 0 THEN "add" ELSE "update"
    IN  IF c.value.f[prop] = n THEN c
        ELSE IF c.ignoreProxy THEN [c EXCEPT !.value = newValue]
        ELSE IF ~Validates(c.schema, newValue) THEN [c EXCEPT !.threw = TRUE]
        ELSE addOperation([c EXCEPT !.value = newValue], Op(method, prop, Num(n)))

\* The proxy's deleteProperty trap on the root object: delete value[prop].
proxyDelete(c, prop) ==
    LET newValue == Obj([c.value.f EXCEPT ![prop] = 0])
    IN  IF c.value.f[prop] = 0 THEN c
        ELSE IF c.ignoreProxy THEN [c EXCEPT !.value = newValue]
        ELSE IF ~Validates(c.schema, newValue) THEN [c EXCEPT !.threw = TRUE]
        ELSE addOperation([c EXCEPT !.value = newValue], Op("delete", prop, Undef))

\* The extension's 'change' listener: v => { if (!('a' in v)) v.a = 1 }.
ListenerKey == "a"
changeListener(c) ==
    IF c.value.kind = "obj" /\ c.value.f[ListenerKey] = 0
    THEN [proxySet(c, ListenerKey, 1) EXCEPT !.threw = FALSE]
    ELSE c

\* One call of a listener of extension code with the replicant's value.
Call(by, v) == [by |-> by, value |-> v]

\* waitForReplicants: numReplicants, its counter declaredReplicants, and
\* whether resolve() has been called.
NoPromise == [numReplicants |-> 0, declaredReplicants |-> 0, state |-> "none"]
NewPromise(n) == [numReplicants |-> n, declaredReplicants |-> 0, state |-> "pending"]
\* The callback waitForReplicants hands to once('change').
waitCallback(c) ==
    LET resolve(d) ==
            IF d.promise.declaredReplicants >= d.promise.numReplicants
            THEN [d EXCEPT !.promise.state = "resolved"] ELSE d
    IN  resolve([c EXCEPT !.promise.declaredReplicants = @ + 1])

\* A one-time listener is called: the callback of waitForReplicants ("wait")
\* or a listener of extension code ("once").
callOnce(c, by) ==
    IF by = "wait" THEN waitCallback(c)
    ELSE [c EXCEPT !.calls = Append(@, Call("once", c.value))]
RECURSIVE callAll(_, _)
callAll(c, listeners) ==
    IF listeners = <<>> THEN c
    ELSE callAll(callOnce(c, Head(listeners)), Tail(listeners))

\* A once that calls no listener before the next 'change' event.
originalOnce(c, by) == [c EXCEPT !.onceListeners = Append(@, by)]

\* replicant.once('change', listener): the override the constructor installs
\* at its end calls the listener at once and registers nothing; a replicant
\* whose constructor threw has the emitter's own once.
once(c, by) ==
    IF c.throttle # "unset" THEN callOnce(c, by) ELSE originalOnce(c, by)

\* replicants.forEach(replicant => replicant.once('change', ...)) over a list
\* that names the replicant n times.
RECURSIVE onceEach(_, _)
onceEach(c, n) == IF n = 0 THEN c ELSE onceEach(once(c, "wait"), n - 1)

\* NodeCG.waitForReplicants(...replicants)
waitForReplicants(c, n) == onceEach([c EXCEPT !.promise = NewPromise(n)], n)

\* replicant.on('change', listener): the 'newListener' hook the constructor
\* installs at its end calls the new listener at once.
newListener(c) ==
    IF c.throttle = "unset" THEN c
    ELSE changeListener([c EXCEPT !.calls = Append(@, Call("on", c.value))])

\* replicant.emit('change', newValue, oldValue, operations): the one-time
\* listeners are called and removed, the listener of extension code is called.
emitChange(c, newValue, old, operations) ==
    LET listen(e) ==
            IF e.listener
            THEN changeListener([e EXCEPT !.calls = Append(@, Call("on", e.value))])
            ELSE e
        fire(e) == callAll([e EXCEPT !.onceListeners = <<>>], e.onceListeners)
    IN  listen(fire([c EXCEPT !.changes = Append(@, [newValue |-> newValue,
                                                     oldValue |-> old,
                                                     operations |-> operations])]))

\* A flush that counts its operations instead of itself.
bumpRevisionByBatchSize(c) ==
    [c EXCEPT !.revision = @ + Len(c.operationQueue) + 1, !.baseValue = c.value]

\* revision++ ; the value the replicant holds at the new revision.
bumpRevision(c) == [c EXCEPT !.revision = @ + 1, !.baseValue = c.value]

\* Replicant._flushOperations.  _oldValue is written by the first
\* _addOperation of a batch and read here only: once read it is dead until
\* the next batch writes it, and the model forgets it.
flushOperations(c) ==
    LET clear(g) ==
            [g EXCEPT !.operationQueue = <<>>,
                      !.oldValue = IF g.pendingOperationFlush THEN @ ELSE Undef]
        change(r) ==
            IF r.crashed THEN r
            ELSE clear(emitChange(r, r.value, r.oldValue, r.operationQueue))
        emit(f) ==
            change(requestSaveReplicant(emitToClients(f, f.operationQueue, c.baseValue)))
    IN  emit(bumpRevision([c EXCEPT !.pendingOperationFlush = FALSE]))

\* opts of a declaration.  persistent is already defaulted to true.
Options == [defaultValue : Values, persistent : BOOLEAN, schemaPath : SchemaPaths]
NoOptions == [defaultValue |-> Undef, persistent |-> TRUE, schemaPath |-> ""]

\* A replacement that is the default of the declaration.
DeclaredDefault(sch, defaultValue) == defaultValue
\* What takes the place of a persisted value that the schema rejects.
ReplacementValue(sch, defaultValue) == schemaDefaults(sch)

\* new Replicant(name, namespace, opts).  threw: a validate() call rejected
\* the default value; the object is then left as far as it was built.
Constructor(c, opts) ==
    LET finish(loaded) ==
            IF loaded.threw THEN loaded
            ELSE [loaded EXCEPT !.throttle = "idle", !.baseValue = loaded.value]
        save(d) == IF d.threw THEN d ELSE saveReplicant(d)
        load(n, existingValue, defaultValue) ==
            IF n.persistent /\ HasExistingValue(existingValue)
            THEN IF Validates(n.schema, existingValue)
                 THEN setValue(n, existingValue, FALSE, TRUE)
                 ELSE setValue(n, ReplacementValue(n.schema, defaultValue), FALSE, TRUE)
            ELSE IF n.schema # NoSchema /\ defaultValue # Undef
                    /\ ~Validates(n.schema, defaultValue)
                 THEN [n EXCEPT !.threw = TRUE]
                 ELSE save(setValue(n, clone(defaultValue), FALSE, TRUE))
        build(n) ==
            load(n, ParseItem(n.store),
                 IF n.schema # NoSchema /\ opts.defaultValue = Undef
                 THEN schemaDefaults(n.schema) ELSE opts.defaultValue)
    IN  IF c.constructed THEN c     \* 'Existing replicant found, returning that'
        ELSE finish(build([c EXCEPT !.persistent = opts.persistent,
                                    !.revision = 0,
                                    !.constructed = TRUE,
                                    !.operationQueue = <<>>,
                                    !.schema = ReadSchema(opts.schemaPath)]))

\* A declare that constructs a replicant every time it is called.
declareAnew(c, opts) ==
    LET set(rep) == IF rep.threw THEN rep ELSE [rep EXCEPT !.declaredReplicants = TRUE]
    IN  set(Constructor([c EXCEPT !.constructed = FALSE], opts))

\* Replicator.declare
declare(c, opts) ==
    LET set(rep) == IF rep.threw THEN rep ELSE [rep EXCEPT !.declaredReplicants = TRUE]
    IN  IF c.declaredReplicants THEN c ELSE set(Constructor(c, opts))

\* Replicator.applyOperations.  threw: an operation's method is unknown; the
\* operations before it stay applied.
applyOperations(c, operations) ==
    IF Throws(operations)
    THEN [c EXCEPT !.value = ApplyUntilThrow(c.value, operations), !.threw = TRUE]
    ELSE LET change(a) == emitChange(a, a.value, clone(c.value), operations)
             applied ==
                 bumpRevision([c EXCEPT !.value = ApplyAll(c.value, operations)])
         IN  saveReplicant(emitToClients(change(applied), operations, c.baseValue))

\* ------------------------------------------------------------------ handlers
\* An acknowledgement: cb(reply).  rejectReason "" : the reply has none.
Reply(c, rejectReason) ==
    [rejectReason |-> rejectReason, value |-> c.value, revision |-> c.revision,
     schema |-> c.schema, schemaSum |-> SchemaSum(c.schema)]
Ack(c, socket, reply) == [c EXCEPT !.acks = Append(@, [socket |-> socket] @@ reply)]

InvalidValue == "Invalid value rejected for replicant"
SchemaMismatch == "Mismatched schema version, assignment rejected"
RevisionMismatch == "Mismatched revision number, assignment rejected"

\* socket.on('replicant:declare')
onDeclare(c, socket, opts) ==
    LET reply(d) ==
            IF d.threw
            THEN Ack(d, socket, [Reply(d, InvalidValue) EXCEPT
                                    !.value = Undef, !.revision = 0,
                                    !.schema = NoSchema, !.schemaSum = NoSum])
            ELSE Ack(d, socket, Reply(d, ""))
    IN  reply(declare(c, opts))

\* A schemaSum check that does not ask whether the replicant has a schema.
SchemaSumAloneDiffers(c, schemaSum) == schemaSum # SchemaSum(c.schema)
\* A revision check that turns away stale proposals only.
RevisionIsStale(c, rev) == c.revision > rev

\* The schemaSum check and the revision check of 'replicant:proposeOperations'.
SchemaSumDiffers(c, schemaSum) ==
    c.schema # NoSchema /\ schemaSum # SchemaSum(c.schema)
RevisionDiffers(c, rev) == c.revision # rev

\* socket.on('replicant:proposeOperations')
\* An exception no handler catches ends the process.
Uncaught(c) == IF c.threw THEN [c EXCEPT !.crashed = TRUE] ELSE c
\* The handler's two checks on the replicant d that declare returned.
checkProposal(d, socket, rev, schemaSum) ==
    IF SchemaSumDiffers(d, schemaSum)
    THEN Ack(d, socket, Reply(d, SchemaMismatch))
    ELSE IF RevisionDiffers(d, rev)
         THEN Ack(d, socket, [Reply(d, RevisionMismatch) EXCEPT
                                 !.schema = NoSchema, !.schemaSum = NoSum])
         ELSE d
proposeTo(d, socket, operations, rev, schemaSum) ==
    IF d.threw THEN d
    ELSE applyOperations(checkProposal(d, socket, rev, schemaSum), operations)
onProposeOperations(c, socket, opts, operations, rev, schemaSum) ==
    Uncaught(proposeTo(declare(c, opts), socket, operations, rev, schemaSum))

\* socket.on('replicant:read')
onRead(c, socket) ==
    LET reply(d) ==
            Ack(d, socket, [Reply(d, "") EXCEPT !.revision = 0, !.schema = NoSchema,
                                                !.schemaSum = NoSum])
    IN  reply(declare(c, NoOptions))

\* ------------------------------------------------------------------ messages
\* The extensions, each with the NodeCGAPIServer instance made for it; every
\* instance has its own 'message' listener on the socket, called in this order.
Extensions == {"e1", "e2"}
ApiContexts == <<"e1", "e2">>
\* A listenFor handler of the message: it calls ack(), or calls it unless
\* ack.handled is set.
HandlerKinds == {"ack", "ackIfUnhandled"}

\* The state of one 'message' event: the flag of the wrapped acknowledgement
\* at hand, the calls of the socket's acknowledgement, and whether a handler
\* threw.
NoAck == [handled |-> FALSE, calls |-> <<>>, threw |-> FALSE]

\* wrappedAck(firstArg, ...restArgs)
wrappedAck(m, ext) ==
    IF m.handled THEN [m EXCEPT !.threw = TRUE]
    ELSE [m EXCEPT !.handled = TRUE,
                   !.calls = Append(@, [by |-> ext, handledBefore |-> m.handled])]

\* handler.func(data.content, wrappedAck)
handlerFunc(m, ext, kind) ==
    IF kind = "ackIfUnhandled" /\ m.handled THEN m ELSE wrappedAck(m, ext)

\* this._messageHandlers.forEach(...): a handler that throws ends it.
RECURSIVE forEachHandler(_, _, _)
forEachHandler(m, ext, handlers) ==
    IF handlers = <<>> \/ m.threw THEN m
    ELSE forEachHandler(handlerFunc(m, ext, Head(handlers)), ext, Tail(handlers))

\* The 'message' listeners of the socket, one per API instance: each wraps
\* the acknowledgement anew.
RECURSIVE onMessage(_, _, _)
onMessage(m, contexts, handlers) ==
    IF contexts = <<>> \/ m.threw THEN m
    ELSE onMessage(forEachHandler([m EXCEPT !.handled = FALSE], Head(contexts),
                                  handlers[Head(contexts)]),
                   Tail(contexts), handlers)

\* ------------------------------------------------------------------ client
\* The client replicant, which is declared.  operationQueue: the local
\* mutations of the current tick; inFlight: the operations of the proposal
\* that awaits its reply; reading: a replicant:read awaits its reply;
\* handling: the event the last handler ran for, with the number of 'change'
\* events and of proposals it emitted.
NoEvent ==
    [event |-> "none", revision |-> 0, operations |-> <<>>, value |-> Undef,
     rejectReason |-> "", changes |-> 0, proposals |-> 0]
DeclaredClient ==
    [value |-> Undef, revision |-> 0, operationQueue |-> <<>>, inFlight |-> <<>>,
     reading |-> FALSE, handling |-> NoEvent]

\* A check that takes every batch that is newer than the client.
IsNewer(cl, r) == r > cl.revision
\* revision == local_revision + 1
IsNext(cl, r) == r = cl.revision + 1

\* The client on replicant:operations { revision: r, operations }.
clientOperations(cl, r, operations) ==
    LET handled(emitted) ==
            [NoEvent EXCEPT !.event = "operations", !.revision = r,
                            !.operations = operations, !.changes = emitted]
    IN  IF IsNext(cl, r)
        THEN [cl EXCEPT !.value = ApplyAll(@, operations), !.revision = r,
                        !.handling = handled(1)]
        ELSE IF r <= cl.revision THEN [cl EXCEPT !.handling = handled(0)]
        ELSE [cl EXCEPT !.reading = TRUE, !.handling = handled(0)]

\* The client on the reply to replicant:read, which carries the value alone.
clientReadReply(cl, v) ==
    [cl EXCEPT !.value = v, !.reading = FALSE,
               !.handling = [NoEvent EXCEPT !.event = "readReply", !.value = v,
                                            !.changes = 1]]

\* A local mutation: applied at once, queued for the end of the tick.
clientMutate(cl, operation) ==
    [cl EXCEPT !.value = ApplyOperation(@, operation),
               !.operationQueue = Append(@, operation),
               !.handling = [NoEvent EXCEPT !.event = "mutate",
                                            !.operations = <<operation>>]]

\* The end of the client's tick: replicant:proposeOperations is emitted.
clientFlush(cl) ==
    [cl EXCEPT !.inFlight = cl.operationQueue, !.operationQueue = <<>>,
               !.handling = [NoEvent EXCEPT !.event = "flush",
                                            !.revision = cl.revision,
                                            !.operations = cl.operationQueue,
                                            !.proposals = 1]]

\* A revert that sends the discarded operations again.
revertAndResend(cl, reply) ==
    [cl EXCEPT !.value = reply.value, !.revision = reply.revision,
               !.handling = [NoEvent EXCEPT !.event = "reply",
                                            !.rejectReason = reply.rejectReason,
                                            !.value = reply.value,
                                            !.revision = reply.revision,
                                            !.operations = cl.inFlight,
                                            !.changes = 1, !.proposals = 1]]

\* The client reverts: the proxy suspended, the server's value and revision
\* installed, the in-flight operations dropped, one 'change' emitted.
revert(cl, reply) ==
    [cl EXCEPT !.value = reply.value, !.revision = reply.revision,
               !.inFlight = <<>>,
               !.handling = [NoEvent EXCEPT !.event = "reply",
                                            !.rejectReason = reply.rejectReason,
                                            !.value = reply.value,
                                            !.revision = reply.revision,
                                            !.changes = 1]]

\* The client on the reply to its proposal: a rejection, or the revision the
\* server gave the accepted operations.
clientReply(cl, reply) ==
    IF reply.rejectReason # "" THEN revert(cl, reply)
    ELSE [cl EXCEPT !.revision = reply.revision, !.inFlight = <<>>,
                    !.handling = [NoEvent EXCEPT !.event = "reply",
                                                 !.value = reply.value,
                                                 !.revision = reply.revision]]

\* ------------------------------------------------------------------ tasks
\* The operations a client proposes, and the proposals made of them.
ClientOperations ==
    {Overwrite(Num(1)), Op("add", "a", Num(MaxNum)), Op("delete", "a", Undef)}
RECURSIVE SeqsUpTo(_, _)
SeqsUpTo(S, n) ==
    IF n = 0 THEN {<<>>}
    ELSE LET shorter == SeqsUpTo(S, n - 1)
         IN  shorter \cup {Append(q, x) : q \in shorter, x \in S}
Proposals == SeqsUpTo(ClientOperations, MaxOps)
\* Batches that may hold an operation of unknown method.
Batches == SeqsUpTo(ClientOperations \cup {UnknownOperation}, MaxBatch)
SchemaSums == {NoSum, Sha1(ObjectToString("any")), Sha1("other")}
\* declare() reads opts only when it has to construct the replicant.
\* Options unlike any the replicant may have been declared with first.
OtherOptions ==
    [defaultValue |-> Num(MaxNum), persistent |-> FALSE,
     schemaPath |-> "schemas/object.json"]
OptionsRead ==
    IF declaredReplicants \/ constructed THEN {NoOptions, OtherOptions} ELSE Options

NoTask ==
    [kind |-> "none", socket |-> "", revision |-> 0, schemaSum |-> NoSum,
     existed |-> FALSE, threw |-> FALSE, call |-> "", steps |-> 0,
     mutations |-> 0, startRevision |-> 0, room |-> ""]
NewTask(kind, socket) ==
    [NoTask EXCEPT !.kind = kind, !.socket = socket,
                   !.existed = declaredReplicants, !.startRevision = revision]

\* Where the process stands once the running code returns.
Returned(c) == IF c.tickQueue = <<>> THEN "done" ELSE "tick"

MacrotaskMayStart == phase = "idle" /\ ~crashed /\ revision < MaxRev

\* A socket sends replicant:declare.
Declare(socket, opts) ==
    /\ MacrotaskMayStart
    /\ LET done(c) ==
               /\ Commit(c)
               /\ task' = [NewTask("declare", socket) EXCEPT !.threw = c.threw]
               /\ phase' = Returned(c)
               /\ subscribers' = IF c.threw THEN subscribers
                                 ELSE subscribers \cup {socket}
       IN  done(onDeclare(Fresh(Cur), socket, opts))
    /\ UNCHANGED rooms

\* A socket sends replicant:proposeOperations.
ProposeOperations(socket, opts, operations, rev, schemaSum) ==
    /\ MacrotaskMayStart
    /\ LET done(c) ==
               /\ Commit(c)
               /\ task' = [NewTask("propose", socket) EXCEPT
                              !.revision = rev, !.schemaSum = schemaSum,
                              !.threw = c.threw]
               /\ phase' = Returned(c)
       IN  done(onProposeOperations(Fresh(Cur), socket, opts, operations, rev,
                                    schemaSum))
    /\ UNCHANGED <<rooms, subscribers>>

\* A socket sends replicant:read.
Read(socket) ==
    /\ MacrotaskMayStart
    /\ LET done(c) ==
               /\ Commit(c)
               /\ task' = NewTask("read", socket)
               /\ phase' = Returned(c)
       IN  done(onRead(Fresh(Cur), socket))
    /\ UNCHANGED <<rooms, subscribers>>

\* socket.on('joinRoom'): joins when the socket's rooms already include room.
JoinsRoom(socketRooms, room) == room \in socketRooms
JoinRoom(socket, room) ==
    /\ MacrotaskMayStart
    /\ LET c == Fresh(Cur)
       IN  IF room = NotAString
           THEN /\ Commit([c EXCEPT !.crashed = TRUE])
                /\ task' = [NewTask("joinRoom", socket) EXCEPT !.threw = TRUE,
                                                               !.room = room]
                /\ UNCHANGED rooms
           ELSE /\ Commit(Ack(c, socket, Reply(c, "")))
                /\ task' = [NewTask("joinRoom", socket) EXCEPT !.room = room]
                /\ rooms' = IF JoinsRoom(rooms[socket], room)
                            THEN [rooms EXCEPT ![socket] = @ \cup {room}]
                            ELSE rooms
    /\ phase' = "done"
    /\ UNCHANGED subscribers

\* Extension code runs in a task of its own: up to MaxMuts calls, one after
\* the other, before it returns to the event loop.
ExtensionMayRun ==
    /\ ~crashed
    /\ \/ phase = "idle" /\ revision < MaxRev
       \/ phase = "ext" /\ task.steps < MaxMuts
ExtensionStep(call, c) ==
    /\ Commit(c)
    /\ task' = [(IF phase = "idle" THEN NewTask("ext", "") ELSE task) EXCEPT
                   !.steps = @ + 1, !.call = call, !.threw = c.threw,
                   !.mutations = Len(c.recorded)]
    /\ phase' = "ext"
    /\ UNCHANGED <<rooms, subscribers>>
Started == IF phase = "idle" THEN Fresh(Cur) ELSE Cur

\* nodecg.Replicant(name, namespace, opts) in an extension.
ExtensionDeclare(opts) ==
    /\ ExtensionMayRun
    /\ ExtensionStep("declare", declare(Started, opts))

\* replicant.value = newValue; sameReference: replicant.value = replicant.value;
\* wrapped: proxyRecursive returns the proxy of the object (it has nothing to
\* wrap, and nothing to throw at, when newValue is no object).
Assign(newValue, sameReference, wrapped) ==
    /\ ExtensionMayRun
    /\ declaredReplicants
    /\ sameReference => newValue = value
    /\ ~wrapped => newValue.kind = "obj" /\ ~sameReference
    /\ ExtensionStep(IF sameReference THEN "reassign" ELSE "assign",
                     setValue(Started, newValue, sameReference, wrapped))

\* replicant.value[prop] = n
SetProperty(prop, n) ==
    /\ ExtensionMayRun
    /\ declaredReplicants
    /\ value.kind = "obj"
    /\ ExtensionStep("set", proxySet(Started, prop, n))

\* delete replicant.value[prop]
DeleteProperty(prop) ==
    /\ ExtensionMayRun
    /\ declaredReplicants
    /\ value.kind = "obj"
    /\ ExtensionStep("delete", proxyDelete(Started, prop))

\* replicant.on('change', listener): the 'newListener' hook of a fully
\* constructed replicant calls the new listener at once.
AddListener ==
    /\ ExtensionMayRun
    /\ declaredReplicants
    /\ ~listener
    /\ ExtensionStep("on", newListener([Started EXCEPT !.listener = TRUE]))

\* replicant.once('change', listener) in an extension.
Once ==
    /\ ExtensionMayRun
    /\ declaredReplicants
    /\ Len(onceListeners) < MaxWait
    /\ ExtensionStep("once", once(Started, "once"))

\* NodeCG.waitForReplicants(replicant, ..., replicant) in an extension: a
\* list of n replicants.
WaitForReplicants(n) ==
    /\ ExtensionMayRun
    /\ declaredReplicants
    /\ promise.state = "none"
    /\ ExtensionStep("wait", waitForReplicants(Started, n))

\* nodecg.listenFor(messageName, bundleName, handlerFunc) in extension ext.
ListenFor(ext, kind) ==
    /\ ExtensionMayRun
    /\ Len(messageHandlers[ext]) < MaxHandlers
    /\ ExtensionStep("listenFor",
                     [Started EXCEPT !.messageHandlers[ext] = Append(@, kind)])

\* A socket sends the message, with an acknowledgement.
Message(socket) ==
    /\ MacrotaskMayStart
    /\ LET done(m) ==
               /\ Commit([Fresh(Cur) EXCEPT !.ackCalls = m.calls,
                                            !.crashed = m.threw])
               /\ task' = [NewTask("message", socket) EXCEPT !.threw = m.threw]
       IN  done(onMessage(NoAck, ApiContexts, messageHandlers))
    /\ phase' = "done"
    /\ UNCHANGED <<rooms, subscribers>>

\* A step of the browser: the server stays as it is.
ClientStep(cl) ==
    /\ Commit([Cur EXCEPT !.client = cl])
    /\ UNCHANGED <<phase, task, rooms, subscribers>>

\* The browser receives replicant:operations.
ClientOperationsArrive(r, operations) ==
    ClientStep(clientOperations(client, r, operations))

\* The browser receives the reply to its replicant:read.
ClientReadReply(v) ==
    /\ client.reading
    /\ ClientStep(clientReadReply(client, v))

\* Code of the page changes the replicant.
ClientMutate(operation) ==
    /\ Len(client.operationQueue) < MaxOps
    /\ ClientStep(clientMutate(client, operation))

\* The browser's tick ends with mutations queued and no proposal in flight.
ClientFlush ==
    /\ client.operationQueue # <<>>
    /\ client.inFlight = <<>>
    /\ ClientStep(clientFlush(client))

\* The browser receives the reply to its proposal.
ClientReply(reply) ==
    /\ client.inFlight # <<>>
    /\ ClientStep(clientReply(client, reply))

\* The extension code returns to the event loop.
Return ==
    /\ phase = "ext"
    /\ ~crashed
    /\ phase' = Returned(Cur)
    /\ UNCHANGED <<replicatorVars, repVars, tickQueue, rooms, crashed,
                   task, emits, changes, acks, recorded, baseValue, writes,
                   subscribers, calls, listenVars, messageVars, client>>

\* ------------------------------------------------------------------ nextTick
\* The write callback saveReplicant arms.  outcome: what setItem does.
WriteOutcomes == {"written", "QUOTA_EXCEEDED_ERR", "other error"}
writeReplicant(c, outcome) ==
    LET w == [c EXCEPT !.pendingSave = FALSE]
        setItem(t) ==
            CASE outcome = "written" ->
                    [t EXCEPT !.store = Stringify(t.value),
                              !.windowWrites =
                                  IF t.throttle \in {"timer", "pending", "cool"} /\ @ < 2
                                  THEN @ + 1 ELSE @]
              [] outcome = "QUOTA_EXCEEDED_ERR" -> t      \* logged
              [] OTHER -> requestSaveReplicant(t)
    IN  IF ~w.persistent THEN w
        ELSE setItem([w EXCEPT !.writes = Append(@, outcome)])

\* The process runs the next process.nextTick callback; setItem does one of
\* outcomes.
RunTick(outcomes) ==
    /\ phase = "tick"
    /\ ~crashed
    /\ tickQueue # <<>>
    /\ LET done(d) == Commit(d) /\ phase' = Returned(d)
           c == [Cur EXCEPT !.tickQueue = Tail(@)]
       IN  \/ /\ Head(tickQueue) = "flush"
              /\ done(flushOperations(c))
           \/ /\ Head(tickQueue) = "save"
              /\ \E outcome \in outcomes : done(writeReplicant(c, outcome))
    /\ UNCHANGED <<rooms, task, subscribers>>
Tick == RunTick(WriteOutcomes)
\* The same on a store whose writes succeed.
TickWritten == RunTick({"written"})

\* NodeCGServer.stop() once the servers are closed: saveAllReplicants, then
\* 'stopped' is emitted (task.threw: stop() rejected and emitted nothing).
Stop(resolution) ==
    /\ phase = "idle"
    /\ ~crashed
    /\ LET done(c) ==
               /\ Commit(c)
               /\ task' = [NewTask("stop", "") EXCEPT !.threw = c.threw]
               /\ phase' = Returned(c)
       IN  done(saveAllReplicants(Fresh(Cur), resolution))
    /\ UNCHANGED <<rooms, subscribers>>

\* The macrotask is over: the process is back in the event loop, or has
\* stopped serving.
Turn ==
    /\ phase = "done"
    /\ ~crashed
    /\ Commit(Fresh(Cur))
    /\ task' = NoTask
    /\ phase' = IF task.kind = "stop" THEN "stopped" ELSE "idle"
    /\ UNCHANGED <<rooms, subscribers>>

\* ------------------------------------------------------------------ timers
\* The throttle's timer fires: the trailing call, when one is pending.
ThrottleTimer ==
    /\ phase = "idle"
    /\ ~crashed
    /\ throttle \in {"timer", "pending"}
    /\ LET done(d) == Commit(d) /\ phase' = Returned(d)
       IN  done(IF throttle = "pending"
                THEN saveReplicant([Fresh(Cur) EXCEPT !.throttle = "cool",
                                                      !.windowWrites = 0])
                ELSE [Fresh(Cur) EXCEPT !.throttle = "idle", !.windowWrites = 0])
    /\ task' = NewTask("timer", "")
    /\ UNCHANGED <<rooms, subscribers>>

\* persistenceInterval passes after the trailing call.
ThrottleCooled ==
    /\ phase = "idle"
    /\ ~crashed
    /\ throttle = "cool"
    /\ Commit([Fresh(Cur) EXCEPT !.throttle = "idle", !.windowWrites = 0])
    /\ task' = NewTask("timer", "")
    /\ phase' = "done"
    /\ UNCHANGED <<rooms, subscribers>>

\* ------------------------------------------------------------------ system
RoomNames(socket) == {ReplicantRoom, NotAString, socket}
\* The sockets are interchangeable: one of them sends the proposals.
Proposers == {"s1"}
\* The revisions a proposal names: behind, at, or ahead of the server's.
ProposedRevisions == 0..(MaxRev - 1)

\* The process has started: no replicant yet, the sockets connected.
ProcessStarted ==
    /\ declaredReplicants = FALSE
    /\ constructed = FALSE
    /\ pendingSave = FALSE
    /\ value = Undef
    /\ revision = 0
    /\ schema = NoSchema
    /\ persistent = TRUE
    /\ throttle = "unset"
    /\ operationQueue = <<>>
    /\ pendingOperationFlush = FALSE
    /\ oldValue = Undef
    /\ ignoreProxy = FALSE
    /\ listener = FALSE
    /\ tickQueue = <<>>
    /\ rooms = [s \in Sockets |-> {s}]
    /\ crashed = FALSE
    /\ phase = "idle"
    /\ task = NoTask
    /\ emits = <<>>
    /\ changes = <<>>
    /\ acks = <<>>
    /\ recorded = <<>>
    /\ baseValue = Undef
    /\ writes = <<>>
    /\ subscribers = {}
    /\ windowWrites = 0
    /\ calls = <<>>
    /\ onceListeners = <<>>
    /\ promise = NoPromise
    /\ messageHandlers = [e \in Extensions |-> <<>>]
    /\ ackCalls = <<>>
    /\ client = DeclaredClient

Init == store \in {NullItem, JsonText(Num(1))} /\ ProcessStarted

Next ==
    \/ \E s \in Sockets, opts \in OptionsRead : Declare(s, opts)
    \/ \E s \in Proposers, opts \in OptionsRead, ops \in Proposals,
          rev \in ProposedRevisions, sum \in SchemaSums :
            ProposeOperations(s, opts, ops, rev, sum)
    \/ \E s \in Sockets : Read(s)
    \/ \E s \in Sockets : \E room \in RoomNames(s) : JoinRoom(s, room)
    \/ \E opts \in OptionsRead : ExtensionDeclare(opts)
    \/ \E v \in Values : Assign(v, FALSE, TRUE)
    \/ Assign(value, TRUE, TRUE)
    \/ \E k \in Keys, n \in Nums : SetProperty(k, n)
    \/ \E k \in Keys : DeleteProperty(k)
    \/ AddListener
    \/ Return
    \/ Tick
    \/ Turn
    \/ ThrottleTimer
    \/ ThrottleCooled

Spec == Init /\ [][Next]_vars

\* Proposals of several operations, some of unknown method, on a replicant
\* that sockets declare.
NextBatch ==
    \/ \E s \in Sockets, opts \in OptionsRead : Declare(s, opts)
    \/ \E s \in Proposers, ops \in Batches, rev \in ProposedRevisions :
            ProposeOperations(s, NoOptions, ops, rev, NoSum)
    \/ Tick
    \/ Turn
    \/ ThrottleTimer
    \/ ThrottleCooled

SpecBatch == Init /\ [][NextBatch]_vars

\* Persistence: a process that finds any store, extension code that assigns
\* any JSON value, proposals, the throttle's timers and shutdown.
InitPersist == store \in PersistedItems /\ ProcessStarted
NextPersist ==
    \/ \E opts \in OptionsRead : ExtensionDeclare(opts)
    \/ \E v \in JsonValues : Assign(v, FALSE, TRUE)
    \/ \E s \in Proposers, ops \in Proposals, rev \in ProposedRevisions :
            ProposeOperations(s, NoOptions, ops, rev, NoSum)
    \/ Return
    \/ Tick
    \/ Turn
    \/ ThrottleTimer
    \/ ThrottleCooled
    \/ \E resolution \in Resolutions : Stop(resolution)

SpecPersist == InitPersist /\ [][NextPersist]_vars

\* The proxy: extension code that assigns values, some of which
\* proxyRecursive refuses to wrap, and edits the value through the proxy.
NextProxy ==
    \/ \E opts \in OptionsRead : ExtensionDeclare(opts)
    \/ \E v \in Values, wrapped \in BOOLEAN : Assign(v, FALSE, wrapped)
    \/ \E k \in Keys, n \in Nums : SetProperty(k, n)
    \/ \E k \in Keys : DeleteProperty(k)
    \/ Return
    \/ Tick
    \/ Turn
    \/ ThrottleTimer
    \/ ThrottleCooled

SpecProxy == Init /\ [][NextProxy]_vars

\* A store whose writes succeed.  Code that runs returns, the callbacks
\* armed with process.nextTick run before the event loop goes on, the event
\* loop goes on, and it serves the throttle's timers however many other
\* tasks there are.
NextEventual ==
    \/ \E opts \in OptionsRead : ExtensionDeclare(opts)
    \/ \E v \in Values : Assign(v, FALSE, TRUE)
    \/ \E s \in Proposers, ops \in Proposals, rev \in ProposedRevisions :
            ProposeOperations(s, NoOptions, ops, rev, NoSum)
    \/ Return
    \/ TickWritten
    \/ Turn
    \/ ThrottleTimer
    \/ ThrottleCooled

SpecEventual ==
    /\ Init
    /\ [][NextEventual]_vars
    /\ WF_vars(Return)
    /\ WF_vars(TickWritten)
    /\ WF_vars(Turn)
    /\ SF_vars(ThrottleTimer)
    /\ SF_vars(ThrottleCooled)

\* Listeners: extension code that listens to the replicant and waits for it,
\* while sockets and extension code declare and change it.
NextListen ==
    \/ \E s \in Proposers, opts \in OptionsRead : Declare(s, opts)
    \/ \E s \in Proposers, ops \in Proposals, rev \in ProposedRevisions :
            ProposeOperations(s, NoOptions, ops, rev, NoSum)
    \/ \E opts \in OptionsRead : ExtensionDeclare(opts)
    \/ \E v \in Values : Assign(v, FALSE, TRUE)
    \/ AddListener
    \/ Once
    \/ \E n \in 0..MaxWait : WaitForReplicants(n)
    \/ Return
    \/ Tick
    \/ Turn
    \/ ThrottleTimer
    \/ ThrottleCooled

SpecListen == Init /\ [][NextListen]_vars

\* Messages: extensions that listen for a message, sockets that send it.
NextMessage ==
    \/ \E ext \in Extensions, kind \in HandlerKinds : ListenFor(ext, kind)
    \/ \E s \in Sockets : Message(s)
    \/ Return
    \/ Turn

SpecMessage == Init /\ [][NextMessage]_vars

\* The client replicant against every server: the batches, the replies to
\* its proposals and the replies to its reads are any the wire can carry.
InboundRevisions == 0..(MaxRev + 1)
ProposalReplies ==
    [rejectReason : {"", RevisionMismatch, SchemaMismatch}, value : Values,
     revision : 0..MaxRev]
NextClient ==
    \/ \E r \in InboundRevisions, ops \in Proposals : ClientOperationsArrive(r, ops)
    \/ \E v \in Values : ClientReadReply(v)
    \/ \E op \in ClientOperations : ClientMutate(op)
    \/ ClientFlush
    \/ \E reply \in ProposalReplies : ClientReply(reply)

SpecClient == Init /\ [][NextClient]_vars

\* ------------------------------------------------------------------ claims
Done == phase = "done"
\* The macrotask has run its handler (its nextTick callbacks may still follow).
Handled(kind) == task.kind = kind /\ phase \in {"tick", "done"}
\* The step is the handler of a proposal for a replicant that exists already.
ProposalHandled == phase = "idle" /\ task'.kind = "propose" /\ declaredReplicants
Rejections == {SchemaMismatch, RevisionMismatch}
NoRejection(replies) == \A i \in 1..Len(replies) : replies[i].rejectReason = ""
\* The broadcasts the step emits.
Emitted ==
    CASE phase = "done" -> <<>>
      [] phase = "idle" -> emits'
      [] OTHER -> SubSeq(emits', Len(emits) + 1, Len(emits'))

\* C1: a proposal the server rejects (schemaSum or revision mismatch) leaves
\* the replicant's value and revision as they were and emits no broadcast.
C1_RejectedProposalChangesNothing ==
    [][(ProposalHandled /\ acks' # <<>> /\ acks'[1].rejectReason \in Rejections)
          => (value' = value /\ revision' = revision /\ emits' = <<>>)]_vars

\* C2: a peer holding the server's value at revision R-1 that applies the
\* operations of the broadcast carrying revision R holds the server's value
\* at revision R.
C2_BroadcastRoundTrip ==
    \A i \in 1..Len(emits) :
        ApplyAll(emits[i].base, emits[i].operations) = emits[i].value

\* C3: the revision starts at 0 and every step raises it by the number of
\* batches it broadcasts, which is 0 or 1; the broadcast carries the new
\* revision, so consecutive broadcasts carry consecutive revisions.
C3_RevisionCountsBatches ==
    /\ revision = 0
    /\ [][/\ Len(Emitted) <= 1
          /\ revision' = revision + Len(Emitted)
          /\ \A i \in 1..Len(Emitted) : Emitted[i].revision = revision']_vars
C3_Witness ==
    /\ Len(emits) = 1 /\ emits[1].revision = 2 /\ revision = 2
    /\ Len(emits[1].operations) = 2

\* C4: the N >= 1 mutations of an extension task (none made during the
\* flush) end in one flush: one broadcast with the N operations in order,
\* one change event, the revision one higher.
C4_Coalescence ==
    (/\ task.kind = "ext" /\ (Done \/ crashed)
     /\ task.mutations >= 1 /\ Len(recorded) = task.mutations)
        => /\ Len(emits) = 1
           /\ emits[1].operations = recorded
           /\ Len(changes) = 1
           /\ revision = task.startRevision + 1

\* C5: an assignment that fails validation throws and leaves everything as
\* it was: value, revision, operation queue, pending flush, no broadcast, no
\* change event.
C5_InvalidAssignmentChangesNothing ==
    [][(/\ phase' = "ext" /\ task'.call = "assign" /\ task'.threw
        /\ task'.steps # task.steps)
          => /\ UNCHANGED <<replicatorVars, repVars, tickQueue, rooms, crashed>>
             /\ emits' = <<>> /\ changes' = <<>>
             /\ recorded' = (IF phase = "idle" THEN <<>> ELSE recorded)]_vars
C5_Witness ==
    /\ phase = "ext" /\ task.call = "assign" /\ task.threw
    /\ schema # NoSchema /\ value.kind = "obj" /\ revision = 1

\* C6: the broadcast of a proposal accepted from socket S goes to every
\* other socket of the room replicant:ns (the sockets that have declared)
\* and not to S.
C6_BroadcastToPeersNotSender ==
    (Handled("propose") /\ NoRejection(acks) /\ emits # <<>>)
        => emits[1].to = subscribers \ {task.socket}

C8_AnySchemaSumDifference ==
    [][(ProposalHandled /\ task'.schemaSum # SchemaSum(schema))
          => (Len(acks') = 1 /\ acks'[1].rejectReason = SchemaMismatch)]_vars
\* C8 amended: for a replicant that has a schema, a proposal whose schemaSum
\* differs from the replicant's is answered with a schema-mismatch rejection
\* carrying schema, schemaSum, value and revision, whatever its revision; a
\* replicant without a schema never answers schema-mismatch.
C8_SchemaMismatchRejected ==
    [][ProposalHandled
          => IF schema # NoSchema /\ task'.schemaSum # SchemaSum(schema)
             THEN acks' = <<[socket |-> task'.socket,
                             rejectReason |-> SchemaMismatch,
                             value |-> value, revision |-> revision,
                             schema |-> schema, schemaSum |-> SchemaSum(schema)]>>
             ELSE \A i \in 1..Len(acks') :
                     acks'[i].rejectReason # SchemaMismatch]_vars
C8_Witness ==
    /\ Handled("propose") /\ task.existed /\ Len(acks) = 1
    /\ acks[1].rejectReason = SchemaMismatch
    /\ task.revision # acks[1].revision
    /\ task.schemaSum = NoSum

\* C9: every proposal is acknowledged exactly once.
C9_ExactlyOneAcknowledgement ==
    (Handled("propose") /\ ~crashed) => Len(acks) = 1

\* C10: a socket is in the room replicant:ns exactly when its
\* replicant:declare has been handled, and from then on every broadcast
\* reaches it.
C10_DeclareJoinsRoom ==
    \A s \in Sockets :
        /\ s \in subscribers <=> ReplicantRoom \in rooms[s]
        /\ s \in subscribers => \A i \in 1..Len(emits) : s \in emits[i].to

\* C11: when a replicant is first declared with a defaultValue and no
\* persisted value, the declaring task and its end-of-tick work leave the
\* revision at 0, the revision of the declare reply.
C11_DefaultConsumesNoRevision ==
    (/\ Done /\ task.kind = "declare" /\ ~task.existed /\ ~task.threw
     /\ store = NullItem /\ value # Undef)
        => (revision = 0 /\ acks[1].revision = 0)

\* C12: a declaration rejected for its defaultValue registers no replicant
\* and arms no write.
C12_RejectedDeclareMutatesNothing ==
    (/\ Handled("declare") /\ ~task.existed
     /\ acks # <<>> /\ acks[1].rejectReason = InvalidValue)
        => (~constructed /\ ~declaredReplicants /\ ~pendingSave)

\* C15: a proposal for a replicant that is not declared creates no replicant
\* and is neither applied nor broadcast.
C15_UndeclaredProposalRefused ==
    (Handled("propose") /\ ~task.existed)
        => (~declaredReplicants /\ ~constructed /\ emits = <<>> /\ revision = 0)

\* C20: replicant:read replies with the replicant's value and changes
\* nothing: no room joined, no replicant created or registered, value,
\* revision and store as before, no broadcast.
C20_ReadChangesNothing ==
    [][(phase = "idle" /\ task'.kind = "read")
          => /\ UNCHANGED <<declaredReplicants, constructed, value, revision,
                            store, rooms, tickQueue>>
             /\ emits' = <<>>
             /\ Len(acks') = 1 /\ acks'[1].value = value]_vars

\* C13: declaring a replicant that is declared already, over the wire or in
\* an extension, with whatever options, leaves the replicant and its value,
\* revision, schema and options as they are; the wire reply carries them.
C13_DeclareIsIdempotent ==
    [][(/\ declaredReplicants
        /\ \/ phase = "idle" /\ task'.kind = "declare"
           \/ phase' = "ext" /\ task'.call = "declare" /\ task'.steps # task.steps)
          => /\ UNCHANGED <<replicatorVars, repVars, tickQueue>>
             /\ task'.kind = "declare" =>
                   (/\ Len(acks') = 1 /\ acks'[1].rejectReason = ""
                    /\ acks'[1].value = value /\ acks'[1].revision = revision)]_vars
C13_Witness ==
    /\ phase = "ext" /\ task.call = "declare" /\ task.existed
    /\ revision = 1 /\ value.kind = "obj" /\ schema = NoSchema /\ persistent

\* C14: a batch with an operation of unknown method is aborted whole: value
\* and revision are what they were before the batch, nothing is broadcast.
C14_BatchIsAtomic ==
    [][(/\ phase = "idle" /\ task'.kind = "propose" /\ declaredReplicants
        /\ task'.threw)
          => (value' = value /\ revision' = revision /\ emits' = <<>>)]_vars

\* C16: when the write to the store fails because the quota is exceeded the
\* write is scheduled again; when it fails otherwise the failure is logged
\* and nothing is scheduled.
C16_QuotaFailureReschedules ==
    [][(phase = "tick" /\ Len(writes') = Len(writes) + 1)
          => /\ writes'[Len(writes')] = "QUOTA_EXCEEDED_ERR"
                   => (pendingSave' \/ throttle' = "pending")
             /\ writes'[Len(writes')] = "other error"
                   => (~pendingSave' /\ throttle' = throttle)]_vars

\* C17: no more than one item is written to the store within one
\* persistenceInterval, whatever asked for the writes.
C17_OneWritePerInterval == windowWrites <= 1

\* C18: once stop() has emitted 'stopped' the store holds the serialization
\* of the value of the persistent replicant, when one was declared (its
\* constructor ran to its end).
C18_StoppedMeansSaved ==
    (/\ task.kind = "stop" /\ ~task.threw
     /\ constructed /\ throttle # "unset" /\ persistent)
        => store = Stringify(value)

\* C19: a persistent replicant without schema created over a store that
\* holds the serialization of a JSON value starts with that value, whatever
\* default its declaration carries.
C19_PersistedValueRestored ==
    [][(/\ ~constructed /\ constructed'
        /\ persistent' /\ schema' = NoSchema
        /\ store # NullItem)
          => store = Stringify(value')]_vars

\* C21: what replicant:declare leaves on the server does not depend on the
\* schemaPath of its opts: two requests that differ in nothing else leave
\* the same schema, schemaSum and value.
C21_SchemaPathIgnored ==
    (phase = "idle" /\ ~declaredReplicants /\ ~constructed)
        => \A s \in Sockets, opts \in Options, schemaPath \in SchemaPaths :
              LET one == onDeclare(Fresh(Cur), s, opts)
                  other == onDeclare(Fresh(Cur), s,
                                     [opts EXCEPT !.schemaPath = schemaPath])
              IN  /\ one.schema = other.schema
                  /\ SchemaSum(one.schema) = SchemaSum(other.schema)
                  /\ one.value = other.value

\* The persisted item is a value that the schema of the new replicant rejects.
PersistedValueRejected(item, sch) ==
    /\ sch # NoSchema
    /\ HasExistingValue(ParseItem(item))
    /\ ~Validates(sch, ParseItem(item))

C23_QueueNonEmptyIffFlushArmed ==
    ~crashed => ((operationQueue # <<>>) <=> pendingOperationFlush)

\* The step is a call of extension code.
ExtensionCalls(call) ==
    phase' = "ext" /\ task'.call = call /\ task'.steps # task.steps
\* The call has left the replicant and what is armed for it as they were.
NothingQueued ==
    UNCHANGED <<replicatorVars, repVars, tickQueue, emits, changes, recorded>>

\* C24: assigning the object the replicant holds, or the primitive it holds,
\* queues nothing, arms nothing and leaves the revision alone; assigning an
\* object equal to the one it holds that is another object queues one
\* overwrite and arms the flush.
C24_SameReferenceIsNoOp ==
    [][/\ ExtensionCalls("reassign") => NothingQueued
       /\ (ExtensionCalls("assign") /\ value.kind # "obj" /\ value' = value)
             => NothingQueued
       /\ (ExtensionCalls("assign") /\ value.kind = "obj" /\ value' = value
           /\ ~task'.threw)
             => /\ operationQueue' = Append(operationQueue, Overwrite(value))
                /\ recorded' = Append(recorded, Overwrite(value))
                /\ pendingOperationFlush' /\ revision' = revision
                /\ tickQueue' = IF pendingOperationFlush THEN tickQueue
                                ELSE Append(tickQueue, "flush")]_vars
C24_Witness ==
    /\ phase = "ext" /\ task.call = "assign" /\ task.steps = 1
    /\ value.kind = "obj" /\ baseValue = value
    /\ operationQueue = <<Overwrite(value)>>
    /\ tickQueue = <<"flush">>

\* C25: a listener added with on('change') to a declared replicant is called
\* at once with the replicant's value; one added with once('change') is
\* called at once with it and is not kept for a later 'change' event.
C25_ListenerCalledAtOnce ==
    [][/\ ExtensionCalls("on") => calls' = Append(calls, Call("on", value))
       /\ ExtensionCalls("once")
             => /\ calls' = Append(calls, Call("once", value))
                /\ onceListeners' = onceListeners]_vars

\* The writes a sequence of nextTick callbacks holds, and the items the
\* setItem calls of the current macrotask have written.
ArmedWrites(queue) == Cardinality({i \in 1..Len(queue) : queue[i] = "save"})
ItemsWritten == Cardinality({i \in 1..Len(writes) : writes[i] = "written"})

HasEmittedChange == revision > 0

\* C27: the promise of waitForReplicants is resolved exactly when every
\* replicant of its list has emitted a 'change' event: from the start for
\* the empty list, and not before the replicant's first event for a list
\* that names it, once or twice.
C27_ResolvesWhenAllChanged ==
    (promise.state # "none" /\ ~crashed)
        => (promise.state = "resolved"
               <=> (promise.numReplicants = 0 \/ HasEmittedChange))

\* C28: the socket's acknowledgement is called at most once for a message,
\* whatever listenFor handlers the extensions have for it.
C28_AcknowledgedAtMostOnce == Len(ackCalls) <= 1

\* C29: a client at revision L that receives a batch of revision r applies
\* it and takes revision r exactly when r = L + 1; it drops the batch when
\* r <= L; when r > L + 1 it applies nothing and sends replicant:read, and
\* the reply's value becomes its value.
C29_InboundBatchByRevision ==
    [][/\ client'.handling.event = "operations" =>
            LET r == client'.handling.revision
                applied == ApplyAll(client.value, client'.handling.operations)
            IN  /\ r = client.revision + 1
                      => /\ client'.value = applied /\ client'.revision = r
                         /\ client'.reading = client.reading
                /\ r <= client.revision
                      => /\ client'.value = client.value
                         /\ client'.revision = client.revision
                         /\ client'.reading = client.reading
                /\ r > client.revision + 1
                      => /\ client'.value = client.value
                         /\ client'.revision = client.revision
                         /\ client'.reading
       /\ client'.handling.event = "readReply"
             => (client'.value = client'.handling.value /\ ~client'.reading)]_vars
C29_Witness ==
    /\ client.handling.event = "operations"
    /\ client.handling.revision > client.revision + 1
    /\ client.revision = 1 /\ client.value # Undef
    /\ client.reading

\* C30: a client whose proposal is rejected for its revision takes the
\* value and the revision of the reply, drops the operations in flight,
\* queues and sends nothing, and emits one 'change'.
C30_RejectedClientReverts ==
    [][(/\ client'.handling.event = "reply"
        /\ client'.handling.rejectReason = RevisionMismatch)
          => /\ client'.value = client'.handling.value
             /\ client'.revision = client'.handling.revision
             /\ client'.inFlight = <<>>
             /\ client'.operationQueue = client.operationQueue
             /\ client'.handling.proposals = 0
             /\ client'.handling.changes = 1]_vars
C30_Witness ==
    /\ client.handling.event = "reply"
    /\ client.handling.rejectReason = RevisionMismatch
    /\ client.revision = 1 /\ client.value = Num(1)
    /\ client.inFlight = <<>>

\* C31: the schemaSum of a replicant's schema is the schemaSum of no other
\* schema: two schemas have the same schemaSum only if they are the same.
C31_SchemaSumIdentifiesSchema ==
    schema # NoSchema
        => \A other \in Schemas :
              SchemaSum(other) = SchemaSum(schema) <=> other = schema

\* The operations of a sequence of broadcasts or change events, in order.
RECURSIVE OperationsOf(_)
OperationsOf(events) ==
    IF events = <<>> THEN <<>>
    ELSE Head(events).operations \o OperationsOf(Tail(events))

\* C32: when a task of extension code has run to its end, the operations its
\* mutations recorded (those of a change listener during a flush included)
\* are the operations of its broadcasts, each once and in order, and the
\* operations of its change events, each once and in order.
C32_EveryOperationSentOnce ==
    (task.kind = "ext" /\ Done /\ ~crashed /\ throttle # "unset")
        => /\ OperationsOf(emits) = recorded
           /\ OperationsOf(changes) = recorded

\* C33: between two callbacks, a replicant that has a schema holds a value
\* its schema accepts.
C33_ValueValidates ==
    (constructed /\ ~crashed /\ throttle # "unset" /\ schema # NoSchema)
        => Validates(schema, value)

\* C34: the i-th flush of a task of extension code emits a change event
\* whose oldValue is the value the replicant held when the batch began (its
\* value at the revision before) and whose newValue is its value at the new
\* revision.
C34_OldValueIsValueBeforeBatch ==
    (task.kind = "ext" /\ ~crashed /\ throttle # "unset")
        => \A i \in 1..Len(changes) :
              i <= Len(emits)
                  => /\ changes[i].oldValue = emits[i].base
                     /\ changes[i].newValue = emits[i].value

\* C35: whenever the process is between two calls of extension code, the
\* replicant's proxy suspension is off, also after a value setter that threw.
C35_SuspensionIsBracketed == ~crashed => ~ignoreProxy

\* C36: on a store whose writes succeed, from some moment on the store item
\* of a persistent replicant that has changed is the serialization of the
\* value the replicant holds.
C36_EventuallyPersisted ==
    <>[]((constructed /\ persistent /\ revision > 0) => store = Stringify(value))

\* C37: the handler of joinRoom(room) with a string room acknowledges and
\* leaves the socket a member of room, and changes no other membership; with
\* a room that is no string it changes no membership.
C37_JoinRoomJoins ==
    [][(phase = "idle" /\ task'.kind = "joinRoom")
          => IF task'.threw
             THEN rooms' = rooms
             ELSE /\ Len(acks') = 1
                  /\ rooms' = [rooms EXCEPT ![task'.socket] = @ \cup {task'.room}]]_vars

====
